---------------------------- MODULE Spec2Model ----------------------------
(***************************************************************************)
(* Model of src/python/generate_api_key.py: the one-shot script that reads *)
(* PRIVATE_KEY from the environment, builds a ClobClient, calls            *)
(* create_api_key once and prints the outcome.                             *)
(*                                                                         *)
(* A Python str is a sequence of one-character strings (<<"0","x","a">>).  *)
(* A printed line is a sequence of tokens: a fixed piece of text of the    *)
(* script is one token (its pictographs left out), an interpolated value   *)
(* contributes its characters.  print() of a text with embedded "\n"       *)
(* appends one line per piece, the empty line being <<>>.                  *)
(***************************************************************************)
EXTENDS Integers, Sequences, FiniteSets, TLC

VARIABLES
    pc,           \* position of the script
    dotenv_file,  \* the .env file: a mapping from names to values
    environ,      \* os.environ restricted to PRIVATE_KEY: a mapping
    private_key,  \* the local private_key of generate_api_key
    client_key,   \* key= argument of every ClobClient(...) call, in order
    ctor_calls,   \* number of ClobClient(...) constructions started
    client,       \* TRUE once the local client is bound
    create_calls, \* number of client.create_api_key() invocations
    create_result,\* "none", "returned" or "raised": outcome of the call
    api_creds,    \* the local api_creds: a mapping from field names to str
    exc,          \* str(e) of the exception being handled
    handler,      \* which except clause handled an exception, if any
    stdout,       \* the lines printed so far
    exit_code     \* <<>> while running, <<c>> once the process has exited

vars == <<pc, dotenv_file, environ, private_key, client_key, ctor_calls,
          client, create_calls, create_result, api_creds, exc, handler,
          stdout, exit_code>>

----------------------------------------------------------------------------
(* Bounds of the model *)

MaxKeyLen == 3
MaxMsgLen == 4

KeyChars == {"0", "x"}
MsgChars == {"4", "0"}
CredVals == {<<"K">>, <<"S">>}

SeqsUpTo(S, n) == UNION {[1..m -> S] : m \in 0..n}

Keys == SeqsUpTo(KeyChars, MaxKeyLen)
Msgs == SeqsUpTo(MsgChars, MaxMsgLen)

----------------------------------------------------------------------------
(* Python values *)

None == <<"<None>">>
NoExc == <<"<no exception>">>

EmptyMap == [n \in {} |-> <<>>]

\* a mapping that may or may not bind PRIVATE_KEY
KeyMaps == {EmptyMap} \cup {[n \in {"PRIVATE_KEY"} |-> k] : k \in Keys}

\* os.getenv(name): the value, or None when the name is not set
getenv(env, name) == IF name \in DOMAIN env THEN env[name] ELSE None

\* load_dotenv(): names of the file that the environment lacks are added,
\* names already in the environment keep their value
load_dotenv(env, file) ==
    [n \in (DOMAIN env) \cup (DOMAIN file) |->
        IF n \in DOMAIN env THEN env[n] ELSE file[n]]


\* fault variant of IsMissing: `private_key is None` in place of `not private_key`
IsMissing_NoneOnly(k) == k = None

\* `not private_key`: None and the empty str are falsy
IsMissing(k) == k = None \/ k = <<>>

startswith0x(k) == Len(k) >= 2 /\ k[1] = "0" /\ k[2] = "x"


\* fault variant of EnsurePrefixed: the prefix is prepended without the test
EnsurePrefixed_Always(k) == <<"0", "x">> \o k

\* lines 38-40
EnsurePrefixed(k) == IF startswith0x(k) THEN k ELSE <<"0", "x">> \o k


\* fault variant of Contains400: str(e).startswith("400") in place of `in`
Contains400_StartsWith(m) ==
    Len(m) >= 3 /\ m[1] = "4" /\ m[2] = "0" /\ m[3] = "0"

\* `"400" in str(e)`
Contains400(m) ==
    \E i \in 1..(Len(m) - 2) : m[i] = "4" /\ m[i+1] = "0" /\ m[i+2] = "0"

Fields == <<"apiKey", "secret", "passphrase">>
FieldSet == {Fields[i] : i \in 1..Len(Fields)}

\* what create_api_key may hand back: a mapping with some of the fields
CredResults == UNION {[D -> CredVals] : D \in SUBSET FieldSet}

\* str(KeyError(name))
KeyErrorStr(name) == <<"'", name, "'">>

----------------------------------------------------------------------------
(* The texts the script prints *)

Blank == <<>>
GeneratingLine == <<"Generating Polymarket CLOB API Key...">>
MissingLine == <<"Error: PRIVATE_KEY not found in .env file">>
PleaseAddKeyLine == <<"Please add your private key to the .env file:">>
KeyExampleLine == <<"PRIVATE_KEY=0x...">>
AddingPrefixLine == <<"Adding '0x' prefix to private key">>
CreatingClientLine == <<"Creating CLOB client...">>
ConnectedLine == <<"   Connected to Polymarket CLOB">>
CreatingCredsLine == <<"Creating API credentials...">>
SuccessLine == <<"SUCCESS! API Key created successfully!">>
Rule == <<"(U+2550 x 60)">>
CredsHeaderLine == <<"API Credentials:">>
PleaseAddCredsLine == <<"Please add these to your .env file:">>
FailedLine == <<"FAILED to create API Key:">>
CausesLine == <<"Possible causes:">>
Cause1 == <<"1. Wallet needs to be initialized (try logging in on polymarket.com first)">>
Cause2 == <<"2. Wallet needs a small amount of MATIC">>
Cause3 == <<"3. System time is out of sync">>

InitErrorLine(m) == <<"Error initializing client: ">> \o m
FailedDetailLine(m) == <<"   ">> \o m

\* lines 32-34
RemediationText == <<MissingLine, Blank, PleaseAddKeyLine, KeyExampleLine, Blank>>


\* fault variant of CredStatements: the two last NAME=value lines interpolate
\* each other's field
CredStatements_Swapped ==
    << [pre |-> <<<<>>, <<"SUCCESS! API Key created successfully!">>, <<>>>>,
        text |-> "", field |-> ""],
       [pre |-> <<>>, text |-> "API Key:    ", field |-> "apiKey"],
       [pre |-> <<>>, text |-> "Secret:     ", field |-> "secret"],
       [pre |-> <<>>, text |-> "Passphrase: ", field |-> "passphrase"],
       [pre |-> <<>>, text |-> "CLOB_API_KEY=",    field |-> "apiKey"],
       [pre |-> <<>>, text |-> "CLOB_SECRET=",     field |-> "passphrase"],
       [pre |-> <<>>, text |-> "CLOB_PASSPHRASE=", field |-> "secret"] >>

\* The statements of lines 59-73 in order.  field = "" is a print of fixed
\* text; otherwise the print interpolates api_creds[field] after `text`.
CredStatements ==
    << [pre |-> <<Blank, SuccessLine, Blank>>, text |-> "", field |-> ""],
       [pre |-> <<Rule>>,                      text |-> "", field |-> ""],
       [pre |-> <<CredsHeaderLine>>,           text |-> "", field |-> ""],
       [pre |-> <<Rule>>,                      text |-> "", field |-> ""],
       [pre |-> <<>>, text |-> "API Key:    ", field |-> "apiKey"],
       [pre |-> <<>>, text |-> "Secret:     ", field |-> "secret"],
       [pre |-> <<>>, text |-> "Passphrase: ", field |-> "passphrase"],
       [pre |-> <<Rule>>,                      text |-> "", field |-> ""],
       [pre |-> <<Blank, PleaseAddCredsLine, Blank>>, text |-> "", field |-> ""],
       [pre |-> <<>>, text |-> "CLOB_API_KEY=",    field |-> "apiKey"],
       [pre |-> <<>>, text |-> "CLOB_SECRET=",     field |-> "secret"],
       [pre |-> <<>>, text |-> "CLOB_PASSPHRASE=", field |-> "passphrase"] >>

\* does statement st raise KeyError on the mapping creds
Raises(st, creds) == st.field # "" /\ st.field \notin DOMAIN creds

\* the lines statement st prints on creds (when it does not raise)
LinesOf(st, creds) ==
    IF st.field = "" THEN st.pre ELSE << <<st.text>> \o creds[st.field] >>

\* index of the first statement of stmts that raises, 0 when none does
RECURSIVE FirstRaise(_, _, _)
FirstRaise(stmts, creds, i) ==
    IF i > Len(stmts) THEN 0
    ELSE IF Raises(stmts[i], creds) THEN i
    ELSE FirstRaise(stmts, creds, i + 1)

\* the lines statements i..n of stmts print
RECURSIVE LinesUpTo(_, _, _, _)
LinesUpTo(stmts, creds, i, n) ==
    IF i > n THEN <<>>
    ELSE LinesOf(stmts[i], creds) \o LinesUpTo(stmts, creds, i + 1, n)

\* lines 76-82
FailureReport(m) ==
    <<Blank, FailedLine, FailedDetailLine(m)>>
    \o (IF Contains400(m)
        THEN <<Blank, CausesLine, Cause1, Cause2, Cause3>>
        ELSE <<>>)

----------------------------------------------------------------------------
(* The script *)

Init ==
    /\ pc = "module"
    /\ dotenv_file \in KeyMaps
    /\ environ \in KeyMaps
    /\ private_key = None
    /\ client_key = <<>>
    /\ ctor_calls = 0
    /\ client = FALSE
    /\ create_calls = 0
    /\ create_result = "none"
    /\ api_creds = EmptyMap
    /\ exc = NoExc
    /\ handler = "none"
    /\ stdout = <<>>
    /\ exit_code = <<>>

\* line 23, then line 88 enters generate_api_key
LoadDotenv ==
    /\ pc = "module"
    /\ environ' = load_dotenv(environ, dotenv_file)
    /\ pc' = "main"
    /\ UNCHANGED <<dotenv_file, private_key, client_key, ctor_calls, client,
                   create_calls, create_result, api_creds, exc, handler,
                   stdout, exit_code>>

\* lines 27-30
ReadKey ==
    /\ pc = "main"
    /\ stdout' = stdout \o <<GeneratingLine, Blank>>
    /\ private_key' = getenv(environ, "PRIVATE_KEY")
    /\ pc' = "check_key"
    /\ UNCHANGED <<dotenv_file, environ, client_key, ctor_calls, client,
                   create_calls, create_result, api_creds, exc, handler,
                   exit_code>>


\* fault variant of MissingKey: the sys.exit(1) of line 35 is left out
MissingKey_NoExit ==
    /\ pc = "check_key"
    /\ private_key = None \/ private_key = <<>>
    /\ stdout' = stdout \o RemediationText
    /\ pc' = "create_client"
    /\ UNCHANGED <<dotenv_file, environ, private_key, client_key, ctor_calls,
                   client, create_calls, create_result, api_creds, exc,
                   handler, exit_code>>

\* lines 31-35: the key is missing, sys.exit(1)
MissingKey ==
    /\ pc = "check_key"
    /\ IsMissing(private_key)
    /\ stdout' = stdout \o RemediationText
    /\ exit_code' = <<1>>
    /\ pc' = "exited"
    /\ UNCHANGED <<dotenv_file, environ, private_key, client_key, ctor_calls,
                   client, create_calls, create_result, api_creds, exc,
                   handler>>

\* lines 31, 38-40: the key is there and gets its prefix
EnsurePrefix ==
    /\ pc = "check_key"
    /\ ~IsMissing(private_key)
    /\ stdout' = IF startswith0x(private_key) THEN stdout
                 ELSE stdout \o <<AddingPrefixLine>>
    /\ private_key' = EnsurePrefixed(private_key)
    /\ pc' = "create_client"
    /\ UNCHANGED <<dotenv_file, environ, client_key, ctor_calls, client,
                   create_calls, create_result, api_creds, exc, handler,
                   exit_code>>

\* lines 44-54: ClobClient(...) returns
ClobClientOk ==
    /\ pc = "create_client"
    /\ ctor_calls' = ctor_calls + 1
    /\ client_key' = Append(client_key, private_key)
    /\ client' = TRUE
    /\ stdout' = stdout \o <<CreatingClientLine, ConnectedLine, Blank,
                             CreatingCredsLine>>
    /\ pc' = "create_api_key"
    /\ UNCHANGED <<dotenv_file, environ, private_key, create_calls,
                   create_result, api_creds, exc, handler, exit_code>>


\* fault variant of ClobClientRaises: the exception is reported where it is
\* raised and the script goes on to line 54
ClobClientRaises_Continues ==
    /\ pc = "create_client"
    /\ \E m \in Msgs :
          /\ exc' = m
          /\ stdout' = stdout \o <<CreatingClientLine, Blank, InitErrorLine(m),
                                   CreatingCredsLine>>
    /\ ctor_calls' = ctor_calls + 1
    /\ client_key' = Append(client_key, private_key)
    /\ handler' = "outer"
    /\ pc' = "create_api_key"
    /\ UNCHANGED <<dotenv_file, environ, private_key, client, create_calls,
                   create_result, api_creds, exit_code>>

\* lines 44-50: ClobClient(...) raises an Exception with message m
ClobClientRaises ==
    /\ pc = "create_client"
    /\ \E m \in Msgs : exc' = m
    /\ ctor_calls' = ctor_calls + 1
    /\ client_key' = Append(client_key, private_key)
    /\ stdout' = stdout \o <<CreatingClientLine>>
    /\ pc' = "except_outer"
    /\ UNCHANGED <<dotenv_file, environ, private_key, client, create_calls,
                   create_result, api_creds, handler, exit_code>>

\* line 57: the call returns a mapping
CreateApiKeyReturns ==
    /\ pc = "create_api_key"
    /\ create_calls' = create_calls + 1
    /\ \E r \in CredResults : api_creds' = r
    /\ create_result' = "returned"
    /\ pc' = "print_creds"
    /\ UNCHANGED <<dotenv_file, environ, private_key, client_key, ctor_calls,
                   client, exc, handler, stdout, exit_code>>

\* line 57: the call (or awaiting it) raises an Exception with message m
CreateApiKeyRaises ==
    /\ pc = "create_api_key"
    /\ create_calls' = create_calls + 1
    /\ \E m \in Msgs : exc' = m
    /\ create_result' = "raised"
    /\ pc' = "except_inner"
    /\ UNCHANGED <<dotenv_file, environ, private_key, client_key, ctor_calls,
                   client, api_creds, handler, stdout, exit_code>>


\* fault variant of PrintCredentials: the credentials are also saved to .env
PrintCredentials_Saves ==
    /\ pc = "print_creds"
    /\ LET n == Len(CredStatements)
           r == FirstRaise(CredStatements, api_creds, 1)
       IN  IF r = 0
           THEN /\ stdout' = stdout \o LinesUpTo(CredStatements, api_creds, 1, n)
                /\ pc' = "return"
                /\ exc' = exc
                /\ dotenv_file' =
                      [nm \in (DOMAIN dotenv_file) \cup {"CLOB_API_KEY"} |->
                          IF nm = "CLOB_API_KEY" THEN api_creds["apiKey"]
                          ELSE dotenv_file[nm]]
           ELSE /\ stdout' = stdout \o LinesUpTo(CredStatements, api_creds, 1, r - 1)
                /\ pc' = "except_inner"
                /\ exc' = KeyErrorStr(CredStatements[r].field)
                /\ dotenv_file' = dotenv_file
    /\ UNCHANGED <<environ, private_key, client_key, ctor_calls,
                   client, create_calls, create_result, api_creds, handler,
                   exit_code>>

\* lines 59-73: printing stops at the first api_creds[...] that raises
PrintCredentials ==
    /\ pc = "print_creds"
    /\ LET n == Len(CredStatements)
           r == FirstRaise(CredStatements, api_creds, 1)
       IN  IF r = 0
           THEN /\ stdout' = stdout \o LinesUpTo(CredStatements, api_creds, 1, n)
                /\ pc' = "return"
                /\ exc' = exc
           ELSE /\ stdout' = stdout \o LinesUpTo(CredStatements, api_creds, 1, r - 1)
                /\ pc' = "except_inner"
                /\ exc' = KeyErrorStr(CredStatements[r].field)
    /\ UNCHANGED <<dotenv_file, environ, private_key, client_key, ctor_calls,
                   client, create_calls, create_result, api_creds, handler,
                   exit_code>>


\* fault variant of ExceptInner: after the report the call is tried once more
ExceptInner_Retries ==
    /\ pc = "except_inner"
    /\ stdout' = stdout \o FailureReport(exc)
    /\ handler' = "inner"
    /\ pc' = IF create_calls < 2 THEN "create_api_key" ELSE "return"
    /\ UNCHANGED <<dotenv_file, environ, private_key, client_key, ctor_calls,
                   client, create_calls, create_result, api_creds, exc,
                   exit_code>>

\* lines 75-82
ExceptInner ==
    /\ pc = "except_inner"
    /\ stdout' = stdout \o FailureReport(exc)
    /\ handler' = "inner"
    /\ pc' = "return"
    /\ UNCHANGED <<dotenv_file, environ, private_key, client_key, ctor_calls,
                   client, create_calls, create_result, api_creds, exc,
                   exit_code>>

\* lines 84-85
ExceptOuter ==
    /\ pc = "except_outer"
    /\ stdout' = stdout \o <<Blank, InitErrorLine(exc)>>
    /\ handler' = "outer"
    /\ pc' = "return"
    /\ UNCHANGED <<dotenv_file, environ, private_key, client_key, ctor_calls,
                   client, create_calls, create_result, api_creds, exc,
                   exit_code>>


\* fault variant of Return: a handled failure ends the process with code 1
Return_FailsOnError ==
    /\ pc = "return"
    /\ exit_code' = IF handler = "none" THEN <<0>> ELSE <<1>>
    /\ pc' = "exited"
    /\ UNCHANGED <<dotenv_file, environ, private_key, client_key, ctor_calls,
                   client, create_calls, create_result, api_creds, exc,
                   handler, stdout>>

\* line 88: generate_api_key returns, asyncio.run returns, the process ends
Return ==
    /\ pc = "return"
    /\ exit_code' = <<0>>
    /\ pc' = "exited"
    /\ UNCHANGED <<dotenv_file, environ, private_key, client_key, ctor_calls,
                   client, create_calls, create_result, api_creds, exc,
                   handler, stdout>>

Next ==
    \/ LoadDotenv
    \/ ReadKey
    \/ MissingKey
    \/ EnsurePrefix
    \/ ClobClientOk
    \/ ClobClientRaises
    \/ CreateApiKeyReturns
    \/ CreateApiKeyRaises
    \/ PrintCredentials
    \/ ExceptInner
    \/ ExceptOuter
    \/ Return

Spec == Init /\ [][Next]_vars

----------------------------------------------------------------------------
(* Vocabulary of the properties, stated on the state alone *)

\* PRIVATE_KEY is unset or empty in the environment generate_api_key reads
KeyAbsent ==
    \/ "PRIVATE_KEY" \notin DOMAIN environ
    \/ environ["PRIVATE_KEY"] = <<>>

\* generate_api_key has been entered (load_dotenv is over)
Entered == pc # "module"

\* the script is past its last print
Finished == pc \in {"return", "exited"}

HasPrefix0x(k) == Len(k) >= 2 /\ SubSeq(k, 1, 2) = <<"0", "x">>

Has400(m) == \E i \in 1..Len(m) : i + 2 <= Len(m) /\ SubSeq(m, i, i + 2) = <<"4", "0", "0">>

\* ClobClient(...) was called and raised
ConstructionFailed == ctor_calls > 0 /\ ~client

Occurs(line) == \E i \in DOMAIN stdout : stdout[i] = line

FailureReported ==
    \/ Occurs(<<"FAILED to create API Key:">>)
    \/ \E i \in DOMAIN stdout :
          Len(stdout[i]) >= 1 /\ stdout[i][1] = "Error initializing client: "

----------------------------------------------------------------------------
(* Properties *)

\* C1: with PRIVATE_KEY unset or empty when generate_api_key starts, the run
\* prints the remediation text and exits with code 1, and neither
\* ClobClient(...) nor create_api_key is ever called in that run.
C1_MissingKeyExitsOne ==
    (Entered /\ KeyAbsent) =>
        /\ ctor_calls = 0
        /\ create_calls = 0
        /\ pc \in {"main", "check_key", "exited"}
        /\ pc = "exited" =>
              /\ exit_code = <<1>>
              /\ Occurs(<<"Error: PRIVATE_KEY not found in .env file">>)
              /\ Occurs(<<"Please add your private key to the .env file:">>)
              /\ Occurs(<<"PRIVATE_KEY=0x...">>)

C1_Witness ==
    /\ pc = "exited"
    /\ KeyAbsent
    /\ exit_code = <<1>>
    /\ Occurs(<<"PRIVATE_KEY=0x...">>)

\* C2: the key handed to ClobClient is "0x"+k when the non-empty PRIVATE_KEY
\* value k lacks the prefix and k itself when it has it, and normalizing the
\* key that was handed over once more leaves it as it is (no doubled prefix).
C2_PrefixIdempotent ==
    (ctor_calls > 0 /\ ~KeyAbsent) =>
        LET k == environ["PRIVATE_KEY"]
            passed == client_key[1]
        IN  /\ passed = (IF HasPrefix0x(k) THEN k ELSE <<"0", "x">> \o k)
            /\ EnsurePrefixed(passed) = passed

C2_Witness ==
    /\ ctor_calls > 0
    /\ ~KeyAbsent
    /\ HasPrefix0x(environ["PRIVATE_KEY"])
    /\ Len(environ["PRIVATE_KEY"]) = 3
    /\ client_key[1] = environ["PRIVATE_KEY"]

\* C3: when ClobClient(...) raises, the initialization error line carrying
\* the exception's message is printed and create_api_key is never called;
\* create_api_key is called only after a construction that succeeded.
C3_NoProvisionAfterInitFailure ==
    /\ ConstructionFailed =>
          /\ create_calls = 0
          /\ pc \in {"except_outer", "return", "exited"}
          /\ Finished => Occurs(<<"Error initializing client: ">> \o exc)
    /\ (create_calls > 0 \/ pc = "create_api_key") => client

C3_Witness ==
    /\ pc = "exited"
    /\ ConstructionFailed
    /\ Len(exc) > 0
    /\ Occurs(<<"Error initializing client: ">> \o exc)

\* C4: when create_api_key returns a result with apiKey=K, secret=S and
\* passphrase=P, the output has the lines CLOB_API_KEY=K, CLOB_SECRET=S and
\* CLOB_PASSPHRASE=P, each with the value of its own field.
C4_CredentialLines ==
    (Finished /\ create_result = "returned"
       /\ DOMAIN api_creds = {"apiKey", "secret", "passphrase"}) =>
        /\ Occurs(<<"CLOB_API_KEY=">> \o api_creds["apiKey"])
        /\ Occurs(<<"CLOB_SECRET=">> \o api_creds["secret"])
        /\ Occurs(<<"CLOB_PASSPHRASE=">> \o api_creds["passphrase"])
        /\ \A v \in CredVals :
              /\ Occurs(<<"CLOB_API_KEY=">> \o v) => v = api_creds["apiKey"]
              /\ Occurs(<<"CLOB_SECRET=">> \o v) => v = api_creds["secret"]
              /\ Occurs(<<"CLOB_PASSPHRASE=">> \o v) => v = api_creds["passphrase"]

C4_Witness ==
    /\ pc = "exited"
    /\ create_result = "returned"
    /\ DOMAIN api_creds = {"apiKey", "secret", "passphrase"}
    /\ api_creds["secret"] # api_creds["passphrase"]
    /\ api_creds["apiKey"] # api_creds["secret"]
    /\ Occurs(<<"CLOB_SECRET=">> \o api_creds["secret"])

\* C5: when create_api_key fails, the output has all three possible causes
\* if the failure message contains "400" and none of them if it does not.
C5_CausesIff400 ==
    (Finished /\ create_result = "raised") =>
        IF Has400(exc)
        THEN /\ Occurs(<<"1. Wallet needs to be initialized (try logging in on polymarket.com first)">>)
             /\ Occurs(<<"2. Wallet needs a small amount of MATIC">>)
             /\ Occurs(<<"3. System time is out of sync">>)
        ELSE /\ ~Occurs(<<"1. Wallet needs to be initialized (try logging in on polymarket.com first)">>)
             /\ ~Occurs(<<"2. Wallet needs a small amount of MATIC">>)
             /\ ~Occurs(<<"3. System time is out of sync">>)

C5_Witness ==
    /\ pc = "exited"
    /\ create_result = "raised"
    /\ Has400(exc)
    /\ exc[1] # "4"
    /\ Occurs(<<"3. System time is out of sync">>)

\* C6: whatever the outcome, create_api_key is called at most once in a run.
C6_AtMostOneCall == create_calls <= 1

C6_Witness ==
    /\ pc = "exited"
    /\ create_result = "raised"
    /\ handler = "inner"
    /\ create_calls = 1

\* C7: the process exits with code 1 exactly when PRIVATE_KEY was absent; a
\* run that ends in a construction failure or a provisioning failure exits
\* with code 0, like a successful run.
C7_ExitCode ==
    pc = "exited" =>
        /\ exit_code \in {<<0>>, <<1>>}
        /\ exit_code = <<1>> <=> KeyAbsent
        /\ (ConstructionFailed \/ create_result = "raised" \/ handler # "none")
              => exit_code = <<0>>

C7_Witness ==
    /\ pc = "exited"
    /\ create_result = "raised"
    /\ handler = "inner"
    /\ exit_code = <<0>>

\* C8: whenever a ClobClient is being or has been constructed, PRIVATE_KEY was
\* present and non-empty and the key handed to the constructor is a
\* non-empty str.
C8_KeyNonEmptyAtConstruction ==
    /\ pc = "create_client" =>
          /\ ~KeyAbsent
          /\ private_key # <<"<None>">>
          /\ private_key # <<>>
    /\ ctor_calls > 0 =>
          /\ ~KeyAbsent
          /\ \A i \in DOMAIN client_key :
                client_key[i] # <<"<None>">> /\ client_key[i] # <<>>

C8_Witness ==
    /\ ctor_calls = 1
    /\ Len(client_key) = 1
    /\ Len(client_key[1]) > 2
    /\ client

\* C9: no step of a run writes the .env file, and once generate_api_key has
\* started no step changes the environment: output goes to stdout only.
C9_NoWrites ==
    [][/\ dotenv_file' = dotenv_file
       /\ Entered => environ' = environ]_vars

C9_Witness ==
    /\ pc = "exited"
    /\ create_result = "returned"
    /\ Occurs(<<"CLOB_API_KEY=">> \o <<"K">>)
    /\ DOMAIN dotenv_file \subseteq {"PRIVATE_KEY"}

\* C10: a run never prints both the success banner and a failure report, and
\* a failure of create_api_key is never handled as an initialization error.
C10_OneOutcome ==
    /\ ~(Occurs(<<"SUCCESS! API Key created successfully!">>) /\ FailureReported)
    /\ create_result = "raised" => handler # "outer"

=============================================================================
